---- MODULE Spec2Model ----
(***************************************************************************)
(* Transfer and metadata subsystem of the Wasabi file bot (src/main.py):   *)
(* FileDatabase (the JSON metadata store), WasabiStorage (the object-store *)
(* client wrapper) and the handlers that ingest, retrieve, link and delete *)
(* files.  A handler step of the model is the code a coroutine runs from  *)
(* one suspension point (await) to the next; what the S3 client does on a  *)
(* worker thread while the handler is suspended is a step of its own.  The *)
(* outcome of the one call a handler ends with is drawn in the step that   *)
(* makes the call; when code follows the call (the except clause after an  *)
(* edit that raised), that code is the next step.                          *)
(*                                                                         *)
(* main.py annotates with Optional, Dict and Any and does not import them  *)
(* from typing; the model is of the module run with these three names      *)
(* bound, the only way in which storage, file_db and the handlers exist.   *)
(***************************************************************************)
EXTENDS Integers, Sequences, FiniteSets, TLC

VARIABLES
    files,      \* file_db.files: the in-memory mapping, a dict in insertion order
    disk,       \* files_database.json: <<>> when missing, else <<text>>
    s3_client,  \* storage.s3_client is configured (TRUE) or None (FALSE)
    bucket,     \* object keys the backend holds in WASABI_BUCKET
    fs,         \* local temporary files: path -> "full"
    task,       \* per running handler: its position and local variables
    started,    \* number of requests dispatched so far
    bench,      \* observer of direct FileDatabase calls (last calls, results)
    progress,   \* the progress throttles of a transfer and what its observer saw
    md5         \* the digests hashlib.md5 has given so far: hashed text -> digest

vars == <<files, disk, s3_client, bucket, fs, task, started, bench, progress, md5>>

-----------------------------------------------------------------------------
(* Bounds of the model *)

MaxTasks == 2       \* handlers the event loop runs concurrently
MaxRequests == 2    \* requests dispatched in one run
IdSpace == 2        \* size of the modelled identifier space
MaxTransfers == 2   \* transfers one process runs one after another
MaxCallers == 2     \* callers inside one progress throttle at once

(* Program constants *)

\* int(os.getenv("MAX_FILE_SIZE", "4294967296")): the ceiling in bytes, here
\* with the environment variable set to 1 GiB (TLC's integers are 32 bits
\* wide; the default of 4 GiB is not representable).
MAX_FILE_SIZE == 1073741824

Tasks == 1 .. MaxTasks

\* 12-character lowercase hexadecimal digests; the first IdSpace are in use.
Digests == <<"0a1b2c3d4e5f", "9f8e7d6c5b4a", "c0ffee123456", "00deadbeef42">>
Ids == {Digests[i] : i \in 1 .. IdSpace}

-----------------------------------------------------------------------------
(* Python values *)

\* Optional[x]: None is <<>>, a value v is <<v>>.
None == <<>>
Some(v) == <<v>>

\* A dict is a sequence of entries [k, v] with pairwise distinct keys, in
\* insertion order.
DictKeys(d) == {d[i].k : i \in DOMAIN d}

DictGet(d, key) ==
    LET I == {i \in DOMAIN d : d[i].k = key}
    IN  IF I = {} THEN None ELSE Some(d[CHOOSE i \in I : TRUE].v)

DictSet(d, key, value) ==
    IF key \in DictKeys(d)
    THEN [i \in DOMAIN d |-> IF d[i].k = key THEN [k |-> key, v |-> value] ELSE d[i]]
    ELSE Append(d, [k |-> key, v |-> value])

DictDel(d, key) == SelectSeq(d, LAMBDA e : e.k # key)

DictValues(d) == {d[i].v : i \in DOMAIN d}

-----------------------------------------------------------------------------
(* FileDatabase *)

\* json.dump writes the opening brace, the entries in dict order and the
\* closing brace; values of JSON types (str, int) are written verbatim.
json_dump(d) == [entries |-> d, closed |-> TRUE]

\* What is left in a file opened with 'w' when the write stops after n entries.
json_truncated(d, n) == [entries |-> SubSeq(d, 1, n), closed |-> FALSE]

\* json.load: a document that is not closed raises JSONDecodeError.
json_valid(text) == text.closed
json_load(text) == text.entries

\* Outcomes of the file I/O in _save_database for the mapping d.
SaveOutcomes(d) ==
    {[kind |-> "ok", n |-> 0], [kind |-> "open_fails", n |-> 0]}
        \cup {[kind |-> "write_fails", n |-> i] : i \in 0 .. Len(d)}

SaveOk == [kind |-> "ok", n |-> 0]

\* Outcomes of opening the file for reading in _load_database.
ReadOutcomes == {"ok", "unreadable"}

\* _load_database that keeps the entries of a document that is not closed.
_load_database_salvaging(file, rd) ==
    IF file = None \/ rd # "ok" THEN <<>> ELSE json_load(file[1])

_load_database(file, rd) ==
    IF file = None THEN <<>>
    ELSE IF rd = "ok" /\ json_valid(file[1]) THEN json_load(file[1])
    ELSE <<>>

\* The web server's reader of the same file (WebFileManager.load_files_db).
load_files_db(file, rd) ==
    IF file # None
    THEN IF rd = "ok" /\ json_valid(file[1]) THEN json_load(file[1]) ELSE <<>>
    ELSE <<>>

\* The file after _save_database(d): open(db_file, 'w') truncates, json.dump
\* writes; every exception is logged and swallowed.
_save_database(d, file, io) ==
    CASE io.kind = "ok" -> Some(json_dump(d))
      [] io.kind = "open_fails" -> file
      [] io.kind = "write_fails" -> Some(json_truncated(d, io.n))

\* add_file that keeps the record an id already has (setdefault).
add_file_keeps_existing(d, file, file_id, file_data, io) ==
    LET d2 == IF file_id \in DictKeys(d) THEN d ELSE DictSet(d, file_id, file_data)
    IN  [files |-> d2, disk |-> _save_database(d2, file, io)]

\* add_file: the new [files, disk].
add_file(d, file, file_id, file_data, io) ==
    LET d2 == DictSet(d, file_id, file_data)
    IN  [files |-> d2, disk |-> _save_database(d2, file, io)]

\* get_file that falls back to the first record when the id is unknown.
get_file_with_fallback(d, file_id) ==
    IF file_id \in DictKeys(d) \/ d = <<>> THEN DictGet(d, file_id) ELSE Some(d[1].v)

get_file(d, file_id) == DictGet(d, file_id)

list_files(d) == d

\* "return self.files": the object list_files hands out is the store's own
\* dict, not a copy of it.
list_files_object == "self.files"

\* What the holder of a reference finds in the object now.
Contents(object, d) == IF object = "self.files" THEN d ELSE object

\* delete_file: the new [files, disk] and the returned bool.
delete_file(d, file, file_id, io) ==
    IF file_id \in DictKeys(d)
    THEN LET d2 == DictDel(d, file_id)
         IN  [files |-> d2, disk |-> _save_database(d2, file, io), ret |-> TRUE]
    ELSE [files |-> d, disk |-> file, ret |-> FALSE]

-----------------------------------------------------------------------------
(* Incoming messages and names *)

\* The media messages the bot receives: the attached object's kind, its
\* optional file_name and mime_type, its declared file_size, date and the
\* messaging system's file_id.
Messages == <<
    [kind |-> "document", file_name |-> Some("a.bin"), mime_type |-> Some("application/pdf"),
     file_size |-> 10, date |-> 7, file_id |-> "tg1"],
    [kind |-> "document", file_name |-> None, mime_type |-> None,
     file_size |-> MAX_FILE_SIZE, date |-> 7, file_id |-> "tg2"],
    [kind |-> "video", file_name |-> None, mime_type |-> None,
     file_size |-> MAX_FILE_SIZE + 1, date |-> 7, file_id |-> "tg3"] >>

\* x or default: the default replaces every falsy x, None and the empty
\* string alike.
OrElse(opt, default) == IF opt = None \/ opt = Some("") THEN default ELSE opt[1]

\* "Get file info": the name and mime type per kind of attachment.
FileInfo(message) ==
    CASE message.kind = "document" ->
            [file_name |-> OrElse(message.file_name, "document"),
             mime_type |-> OrElse(message.mime_type, "application/octet-stream")]
      [] message.kind = "video" ->
            [file_name |-> "video_" \o ToString(message.date) \o ".mp4",
             mime_type |-> OrElse(message.mime_type, "video/mp4")]
      [] message.kind = "audio" ->
            [file_name |-> OrElse(message.file_name,
                                  "audio_" \o ToString(message.date) \o ".mp3"),
             mime_type |-> OrElse(message.mime_type, "audio/mpeg")]
      [] message.kind = "photo" ->
            [file_name |-> "photo_" \o ToString(message.date) \o ".jpg",
             mime_type |-> "image/jpeg"]

\* The size check off by one byte.
TooLargeOffByOne(file_size) == file_size > MAX_FILE_SIZE + 1

\* "Check file size"
TooLarge(file_size) == file_size > MAX_FILE_SIZE

\* data = f"{file_name}_{file_size}_{datetime.now().isoformat()}": the text
\* is determined by, and determines, the name, the size and the instant.
hashed_text(file_name, file_size, now) == <<file_name, file_size, now>>

\* No text has been hashed yet.
NoDigests == [data \in {} |-> ""]

\* The digests hashlib.md5(data).hexdigest()[:12] can give: md5 is a fixed
\* function, so a text hashed before gets the digest it got then; for a text
\* not hashed before every digest of the identifier space is possible, one
\* already given to another text included.
DigestsFor(memo, data) ==
    IF data \in DOMAIN memo THEN {memo[data]} ELSE Ids

\* hashlib.md5(data.encode()).hexdigest()[:12], digest being what md5 gives
\* a text it has not hashed before.
md5_hexdigest_12(memo, data, digest) ==
    IF data \in DOMAIN memo THEN memo[data] ELSE digest

\* The digests given so far, with the one of data.
Hashed(memo, data, digest) ==
    [x \in DOMAIN memo \cup {data} |->
        IF x = data THEN md5_hexdigest_12(memo, data, digest) ELSE memo[x]]

\* generate_file_id(file_name, file_size) called at the instant now.
generate_file_id(memo, file_name, file_size, now, digest) ==
    md5_hexdigest_12(memo, hashed_text(file_name, file_size, now), digest)

\* datetime.now().strftime('%Y-%m-%d %H:%M:%S'): one-second resolution, so
\* every instant of a run shorter than a second formats to the same text.
strftime(now) == "2024-01-01 00:00:00"

\* f"temp_{file_id}_{file_name}"
temp_file_name(file_id, file_name) == "temp_" \o file_id \o "_" \o file_name

\* f"files/{file_id}/{file_name}"
wasabi_key_of(file_id, file_name) == "files/" \o file_id \o "/" \o file_name

file_metadata_of(message, file_id, now) ==
    [name |-> FileInfo(message).file_name,
     size |-> message.file_size,
     mime_type |-> FileInfo(message).mime_type,
     wasabi_key |-> wasabi_key_of(file_id, FileInfo(message).file_name),
     upload_date |-> strftime(now),
     telegram_file_id |-> message.file_id]

-----------------------------------------------------------------------------
(* Local files *)

Exists(f, path) == path \in DOMAIN f
WriteFile(f, path, content) ==
    [p \in DOMAIN f \cup {path} |-> IF p = path THEN content ELSE f[p]]
RemoveFile(f, path) == [p \in DOMAIN f \ {path} |-> f[p]]
NoFiles == [p \in {} |-> "full"]

-----------------------------------------------------------------------------
(* Handlers *)

\* Outcome of a call to the messaging collaborator (reply_text, edit_text,
\* delete): it returns or raises.
NotifyOutcomes == {"ok", "raise"}

\* A handler's locals.  pc: where it is suspended; sent: the result messages
\* it issued to the requester; calls: the backend calls it made; temp: the
\* path client.download_media returned; backend: the bool its WasabiStorage
\* call returned; raised: an exception left the normal path of the handler.
IdleTask ==
    [pc |-> "idle", op |-> "none", file_id |-> "", msg |-> 0, file_data |-> None,
     staged |-> "none", temp |-> "", backend |-> "none", delivery |-> "none",
     sent |-> {}, calls |-> {}, raised |-> FALSE, url |-> ""]

Finished(h) == task[h].pc \in {"idle", "done"}

\* The dispatcher gives a new request to the first handler that is not running.
Free(h) ==
    /\ Finished(h)
    /\ \A g \in Tasks : g < h => ~Finished(g)
    /\ started < MaxRequests

Set(h, t) == task' = [task EXCEPT ![h] = t]

Fresh(op) == [IdleTask EXCEPT !.op = op]

\* The message text of the except clause: "Upload failed: ..." or
\* "Download failed due to an error."
Excepted(t) == [t EXCEPT !.pc = "done", !.raised = TRUE, !.sent = @ \cup {"Error"}]

\* An exception that leaves the handler (no enclosing try).
Propagated(t) == [t EXCEPT !.pc = "done", !.raised = TRUE]

\* reply_text(text) / edit_text(text) outside any try block as the handler's
\* last statement: the message is issued, and when the call raises the
\* exception leaves the handler.
LastReply(t, signal, n) ==
    LET t2 == [t EXCEPT !.pc = "done", !.sent = @ \cup {signal}]
    IN  IF n = "ok" THEN t2 ELSE Propagated(t2)

\* edit_text(text) inside the try block as the last statement of the normal
\* path: the message is issued; when the call returns the handler has ended,
\* when it raises the except clause is entered next.
LastEdit(t, signal, n) ==
    LET t2 == [t EXCEPT !.sent = @ \cup {signal}]
    IN  IF n = "ok" THEN [t2 EXCEPT !.pc = "done"] ELSE [t2 EXCEPT !.pc = "excepting"]

-----------------------------------------------------------------------------
(* WasabiStorage: each method is one try block that turns every exception
   into its failure value *)

\* What the S3 client does when called: it completes, or it raises.
BackendOutcomes == {"ok", "raise"}

\* upload_file that reports success whenever the client is configured.
upload_file_optimistic(configured, out) == configured

\* upload_file: False without a client (the client is not called), True when
\* s3_client.upload_file completed, False when it raised.
upload_file(configured, out) ==
    IF ~configured THEN FALSE
    ELSE IF out = "ok" THEN TRUE
    ELSE FALSE

\* download_file: as upload_file, with head_object called before the transfer.
download_file(configured, head, out) ==
    IF ~configured THEN FALSE
    ELSE IF head = "ok" /\ out = "ok" THEN TRUE
    ELSE FALSE

\* WasabiStorage.delete_file.
storage_delete_file(configured, out) ==
    IF ~configured THEN FALSE
    ELSE IF out = "ok" THEN TRUE
    ELSE FALSE

\* The thread a call to the S3 client runs on: the worker thread of
\* run_in_executor, or the event-loop thread when the coroutine calls the
\* client directly.
thread_of(call) ==
    CASE call = "upload" -> "worker"
      [] call = "download" -> "worker"
      [] call = "delete" -> "worker"
      [] call = "head_object" -> "event_loop"
      [] call = "presign" -> "event_loop"

-----------------------------------------------------------------------------
(* handle_file_upload: ingest *)

\* datetime.now() at a call of generate_file_id in the running bot: an
\* instant later than that of every earlier call.
InstantOfCall(memo) == Cardinality(DOMAIN memo)

\* Up to the first suspension: the size check with its "File too large"
\* reply, or the identifier and the call of the "Starting upload..." reply.
StartIngest(h) ==
    /\ Free(h)
    /\ \E m \in DOMAIN Messages, n \in NotifyOutcomes :
       \E digest \in DigestsFor(md5, hashed_text(FileInfo(Messages[m]).file_name,
                                                  Messages[m].file_size,
                                                  InstantOfCall(md5))) :
          LET info == FileInfo(Messages[m])
              file_size == Messages[m].file_size
              now == InstantOfCall(md5)
              t == [Fresh("ingest") EXCEPT !.msg = m]
          IN  IF TooLarge(file_size)
              THEN /\ md5' = md5
                   /\ Set(h, LastReply(t, "SizeExceeded", n))
              ELSE /\ n = "ok"
                   /\ md5' = Hashed(md5, hashed_text(info.file_name, file_size, now),
                                    digest)
                   /\ Set(h, [t EXCEPT !.pc = "starting",
                                       !.file_id = generate_file_id(md5, info.file_name,
                                                       file_size, now, digest)])
    /\ started' = started + 1
    /\ UNCHANGED <<files, disk, s3_client, bucket, fs, bench, progress>>

\* The "Starting upload..." reply returns and client.download_media is
\* called, or the reply raises (it is outside the try block).
IngestStarted(h) ==
    /\ task[h].pc = "starting"
    /\ \E n \in NotifyOutcomes :
          IF n = "raise"
          THEN Set(h, Propagated(task[h]))
          ELSE Set(h, [task[h] EXCEPT !.pc = "staging"])
    /\ UNCHANGED <<md5, files, disk, s3_client, bucket, fs, started, bench, progress>>

IngestName(t) == FileInfo(Messages[t.msg]).file_name
IngestKey(t) == wasabi_key_of(t.file_id, IngestName(t))

\* Where client.download_media stores the media for a relative file_name and
\* what it returns: the name as given (in the working directory), or the name
\* in the library's download directory.
MediaDirs == {"", "downloads/"}
download_media_path(dir, file_name) == dir \o file_name

\* temp_file: the path client.download_media returned.
IngestTemp(t) == t.temp

\* client.download_media returns: the staged path, None, or it raises.  With
\* the file staged, storage.upload_file runs up to its own suspension: it
\* returns False at once when the client is not configured.
StagingDone(h) ==
    /\ task[h].pc = "staging"
    /\ \E out \in {"ok", "none", "raise"}, n \in NotifyOutcomes, dir \in MediaDirs :
          LET t == [task[h] EXCEPT
                       !.staged = out,
                       !.temp = IF out = "ok"
                                THEN download_media_path(dir,
                                         temp_file_name(task[h].file_id,
                                                        IngestName(task[h])))
                                ELSE @]
          IN  CASE out = "ok" ->
                     /\ n = "ok"
                     /\ fs' = WriteFile(fs, IngestTemp(t), "full")
                     /\ IF s3_client
                        THEN Set(h, [t EXCEPT !.pc = "uploading",
                                              !.calls = @ \cup {"upload"}])
                        ELSE Set(h, [t EXCEPT !.pc = "notifying", !.backend = "fail",
                                              !.sent = @ \cup {"TransferFailed"}])
                [] out = "none" ->
                     /\ dir = ""
                     /\ fs' = fs
                     /\ Set(h, LastEdit(t, "StagingFailed", n))
                [] out = "raise" ->
                     /\ dir = ""
                     /\ fs' = fs
                     /\ n = "ok"
                     /\ Set(h, Excepted(t))
    /\ UNCHANGED <<md5, files, disk, s3_client, bucket, started, bench, progress>>

\* The metadata saved whatever the upload returned.
IngestStoreAlways(d, file, upload_success, file_id, file_metadata, io) ==
    add_file(d, file, file_id, file_metadata, io)

\* "if upload_success:" the metadata is saved, else the store is left alone.
IngestStore(d, file, upload_success, file_id, file_metadata, io) ==
    IF upload_success
    THEN add_file(d, file, file_id, file_metadata, io)
    ELSE [files |-> d, disk |-> file]

\* On the worker thread of run_in_executor the S3 client's upload completes
\* (the object is in the bucket) or raises; the bool storage.upload_file will
\* return is settled (task.backend) while the handler is still suspended.
UploadEffect(h) ==
    /\ task[h].pc = "uploading"
    /\ \E out \in BackendOutcomes :
          LET t == task[h]
              upload_success == upload_file(s3_client, out)
          IN  /\ bucket' = IF out = "ok" THEN bucket \cup {IngestKey(t)} ELSE bucket
              /\ Set(h, [t EXCEPT !.pc = "uploaded",
                                  !.backend = IF upload_success THEN "ok" ELSE "fail"])
    /\ UNCHANGED <<md5, files, disk, s3_client, fs, started, bench, progress>>

\* The handler resumes on the event loop with the bool storage.upload_file
\* returned, stores the metadata and issues the result message.
UploadDone(h) ==
    /\ task[h].pc = "uploaded"
    /\ \E io \in SaveOutcomes(DictSet(files, task[h].file_id,
                     file_metadata_of(Messages[task[h].msg], task[h].file_id,
                                      InstantOfCall(md5)))) :
          LET t == task[h]
              now == InstantOfCall(md5)
              upload_success == t.backend = "ok"
              db == IngestStore(files, disk, upload_success, t.file_id,
                                file_metadata_of(Messages[t.msg], t.file_id, now), io)
          IN  /\ upload_success \/ io = SaveOk
              /\ files' = db.files
              /\ disk' = db.disk
              /\ Set(h, [t EXCEPT !.pc = "notifying",
                                  !.sent = @ \cup {IF upload_success THEN "UploadComplete"
                                                   ELSE "TransferFailed"}])
    /\ UNCHANGED <<md5, s3_client, bucket, fs, started, bench, progress>>

\* "Clean up temp file" after the result message was delivered; when the
\* message raises, the except clause runs instead.
IngestCleanup(f, temp_file, n) ==
    IF n = "ok" /\ Exists(f, temp_file) THEN RemoveFile(f, temp_file) ELSE f

NotifyDone(h) ==
    /\ task[h].pc = "notifying"
    /\ \E n \in NotifyOutcomes :
          /\ fs' = IngestCleanup(fs, IngestTemp(task[h]), n)
          /\ Set(h, IF n = "ok" THEN [task[h] EXCEPT !.pc = "done"]
                    ELSE Excepted(task[h]))
    /\ UNCHANGED <<md5, files, disk, s3_client, bucket, started, bench, progress>>

\* The failure edit of the normal path raised: the except clause of
\* handle_file_upload or download_command logs the error and issues its own
\* message, the handler's last.
ExceptClause(h) ==
    /\ task[h].pc = "excepting"
    /\ Set(h, Excepted(task[h]))
    /\ UNCHANGED <<md5, files, disk, s3_client, bucket, fs, started, bench, progress>>

-----------------------------------------------------------------------------
(* download_command: retrieve *)

\* message.command[1], when given
Args == {None} \cup {Some(i) : i \in Ids}

RetrieveTemp(t) == temp_file_name(t.file_id, t.file_data[1].name)

\* download_command up to its first suspension, message.command[1:] being
\* arg: the usage or not-found reply, or the lookup and the call of the
\* "Preparing download..." reply.
download_command(h, arg) ==
    \E n \in NotifyOutcomes :
        IF arg = None
        THEN Set(h, LastReply(Fresh("retrieve"), "Usage", n))
        ELSE LET file_data == get_file(files, arg[1])
                 t == [Fresh("retrieve") EXCEPT !.file_id = arg[1],
                                                !.file_data = file_data]
             IN  IF file_data = None
                 THEN Set(h, LastReply(t, "NotFound", n))
                 ELSE n = "ok" /\ Set(h, [t EXCEPT !.pc = "preparing"])

\* /download [file_id]
StartRetrieve(h) ==
    /\ Free(h)
    /\ \E arg \in Args : download_command(h, arg)
    /\ started' = started + 1
    /\ UNCHANGED <<md5, files, disk, s3_client, bucket, fs, bench, progress>>

\* The "Preparing download..." reply returns or raises (outside the try
\* block); storage.download_file runs up to its suspension: it returns False
\* at once without a client or when head_object raises, and the handler then
\* issues the "Download failed" edit.
RetrievePrepared(h) ==
    /\ task[h].pc = "preparing"
    /\ \E n \in NotifyOutcomes, head \in {"ok", "raise"}, n2 \in NotifyOutcomes :
          LET t == task[h]
          IN  IF n = "raise"
              THEN head = "ok" /\ n2 = "ok" /\ Set(h, Propagated(t))
              ELSE IF ~s3_client
              THEN head = "ok"
                   /\ Set(h, LastEdit([t EXCEPT !.backend = "fail"], "DownloadFailed", n2))
              ELSE IF head = "raise"
              THEN Set(h, LastEdit([t EXCEPT !.backend = "fail",
                                             !.calls = {"head_object"}],
                                   "DownloadFailed", n2))
              ELSE n2 = "ok"
                   /\ Set(h, [t EXCEPT !.pc = "downloading",
                                       !.calls = {"head_object", "download"}])
    /\ UNCHANGED <<md5, files, disk, s3_client, bucket, fs, started, bench, progress>>

\* On the worker thread of run_in_executor the S3 client's download writes
\* the file or raises (it writes to a scratch name and renames on completion,
\* so a failed transfer leaves the destination path as it was); the bool
\* storage.download_file will return is settled (task.backend) while the
\* handler is still suspended.
DownloadEffect(h) ==
    /\ task[h].pc = "downloading"
    /\ \E out \in BackendOutcomes :
          LET success == download_file(s3_client, "ok", out)
              t == [task[h] EXCEPT !.pc = "downloaded",
                                   !.backend = IF success THEN "ok" ELSE "fail"]
          IN  /\ fs' = IF out = "ok" THEN WriteFile(fs, RetrieveTemp(t), "full") ELSE fs
              /\ Set(h, t)
    /\ UNCHANGED <<md5, files, disk, s3_client, bucket, started, bench, progress>>

\* The handler resumes on the event loop with the bool storage.download_file
\* returned: "if success and os.path.exists(temp_file)", then the call of the
\* "Sending file..." edit, else the "Download failed" edit.
DownloadDone(h) ==
    /\ task[h].pc = "downloaded"
    /\ \E n \in NotifyOutcomes :
          LET t == task[h]
              success == t.backend = "ok"
              temp_file == RetrieveTemp(t)
          IN  IF success /\ Exists(fs, temp_file)
              THEN n = "ok" /\ Set(h, [t EXCEPT !.pc = "sending"])
              ELSE Set(h, LastEdit(t, "DownloadFailed", n))
    /\ UNCHANGED <<md5, files, disk, s3_client, bucket, fs, started, bench, progress>>

\* The "Sending file..." edit returns or raises; message.reply_document is
\* called with the temporary file's path and raises at once when no file is
\* there.
SendingDone(h) ==
    /\ task[h].pc = "sending"
    /\ \E n \in NotifyOutcomes :
          LET t == task[h]
          IN  IF n = "raise"
              THEN Set(h, Excepted(t))
              ELSE IF ~Exists(fs, RetrieveTemp(t))
              THEN Set(h, Excepted([t EXCEPT !.delivery = "raise"]))
              ELSE Set(h, [t EXCEPT !.pc = "delivering"])
    /\ UNCHANGED <<md5, files, disk, s3_client, bucket, fs, started, bench, progress>>

\* After message.reply_document: "Clean up temp file" runs only when the
\* delivery returned; os.remove raises when the file is gone.
RetrieveCleanup(f, temp_file, delivered) ==
    IF delivered /\ Exists(f, temp_file) THEN RemoveFile(f, temp_file) ELSE f

\* message.reply_document returns or raises.  When it returned, the
\* temporary file is removed and progress_msg.delete() is called.
DeliveryDone(h) ==
    /\ task[h].pc = "delivering"
    /\ \E out \in {"ok", "raise"} :
          LET t == [task[h] EXCEPT !.delivery = out]
              temp_file == RetrieveTemp(t)
          IN  /\ fs' = RetrieveCleanup(fs, temp_file, out = "ok")
              /\ IF out = "raise"
                 THEN Set(h, Excepted(t))
                 ELSE LET t2 == [t EXCEPT !.sent = @ \cup {"Delivered"}]
                      IN  IF Exists(fs, temp_file)
                          THEN Set(h, [t2 EXCEPT !.pc = "cleaning"])
                          ELSE Set(h, Excepted(t2))
    /\ UNCHANGED <<md5, files, disk, s3_client, bucket, started, bench, progress>>

\* progress_msg.delete() returns, or raises into the except clause.
CleanupDone(h) ==
    /\ task[h].pc = "cleaning"
    /\ \E n \in NotifyOutcomes :
          Set(h, IF n = "ok" THEN [task[h] EXCEPT !.pc = "done"]
                 ELSE Excepted(task[h]))
    /\ UNCHANGED <<md5, files, disk, s3_client, bucket, fs, started, bench, progress>>

-----------------------------------------------------------------------------
(* list_command *)

\* list_command: the listing is read and formatted, and the reply is sent.
list_command(h) ==
    \E n \in NotifyOutcomes :
        LET listing == list_files(files)
        IN  Set(h, LastReply(Fresh("list"),
                             IF listing = <<>> THEN "NoFiles" ELSE "Listing", n))

\* /list
ListCommand(h) ==
    /\ Free(h)
    /\ list_command(h)
    /\ started' = started + 1
    /\ UNCHANGED <<md5, files, disk, s3_client, bucket, fs, bench, progress>>

-----------------------------------------------------------------------------
(* stream_command, web_command: links *)

\* storage.get_presigned_url: None without a client or when the client
\* raises, else a URL for the key.
get_presigned_url(configured, object_key, out) ==
    IF configured /\ out = "ok" THEN Some("https://" \o object_key) ELSE None

\* stream_command / web_command, message.command[1:] being arg: the usage
\* or not-found reply, or the link and the reply that carries it.
link_command(h, op, arg) ==
    \E out \in {"ok", "raise"}, n \in NotifyOutcomes :
        IF arg = None
        THEN out = "ok"
             /\ Set(h, LastReply(Fresh(op), "Usage", n))
        ELSE LET file_data == get_file(files, arg[1])
                 t == [Fresh(op) EXCEPT !.file_id = arg[1], !.file_data = file_data]
             IN  IF file_data = None
                 THEN out = "ok"
                      /\ Set(h, LastReply(t, "NotFound", n))
                 ELSE LET streaming_url ==
                              get_presigned_url(s3_client, file_data[1].wasabi_key, out)
                          t2 == [t EXCEPT
                                    !.calls = IF s3_client THEN {"presign"} ELSE {}]
                      IN  /\ s3_client \/ out = "ok"
                          /\ IF streaming_url = None
                             THEN Set(h, LastReply(t2, "LinkGenerationFailed", n))
                             ELSE Set(h, LastReply([t2 EXCEPT !.url = streaming_url[1]],
                                                   "LinkIssued", n))

stream_command(h, arg) == link_command(h, "stream", arg)

web_command(h, arg) == link_command(h, "web", arg)

\* /stream [file_id], /web [file_id]
LinkCommand(h, op) ==
    /\ Free(h)
    /\ \E arg \in Args : link_command(h, op, arg)
    /\ started' = started + 1
    /\ UNCHANGED <<md5, files, disk, s3_client, bucket, fs, bench, progress>>

StreamCommand(h) == LinkCommand(h, "stream")

WebCommand(h) == LinkCommand(h, "web")

-----------------------------------------------------------------------------
(* handle_callbacks: the buttons that route to a command *)

\* The routes "list_files", "download_<id>", "stream_<id>" and "web_<id>",
\* named by the command they end in.
Routes == {"list", "retrieve", "stream", "web"}

\* A button is pressed: the route is taken from callback_query.data, the
\* identifier is cut out of it and callback_query.answer(...) is called.
CallbackQuery(h) ==
    /\ Free(h)
    /\ \E route \in Routes, file_id \in Ids :
          /\ route = "list" => file_id = Digests[1]
          /\ Set(h, [Fresh(route) EXCEPT
                        !.pc = "answering",
                        !.file_id = IF route = "list" THEN "" ELSE file_id])
    /\ started' = started + 1
    /\ UNCHANGED <<md5, files, disk, s3_client, bucket, fs, bench, progress>>

\* callback_query.answer returns and the command runs on the fake message
\* (command = [name, file_id]) up to its first suspension, or answer raises
\* and the exception leaves the handler.
CallbackAnswered(h) ==
    /\ task[h].pc = "answering"
    /\ task[h].op \in Routes
    /\ \E n \in NotifyOutcomes :
          IF n = "raise"
          THEN Set(h, Propagated(task[h]))
          ELSE CASE task[h].op = "list" -> list_command(h)
                 [] task[h].op = "retrieve" -> download_command(h, Some(task[h].file_id))
                 [] task[h].op = "stream" -> stream_command(h, Some(task[h].file_id))
                 [] task[h].op = "web" -> web_command(h, Some(task[h].file_id))
    /\ UNCHANGED <<md5, files, disk, s3_client, bucket, fs, started, bench, progress>>

-----------------------------------------------------------------------------
(* delete_command, handle_callbacks "confirm_delete_": delete *)

\* /delete <file_id>: the confirmation prompt.
DeleteCommand(h) ==
    /\ Free(h)
    /\ \E arg \in Args, n \in NotifyOutcomes :
          IF arg = None
          THEN Set(h, LastReply(Fresh("delete_prompt"), "Usage", n))
          ELSE LET file_data == get_file(files, arg[1])
                   t == [Fresh("delete_prompt") EXCEPT !.file_id = arg[1],
                                                       !.file_data = file_data]
               IN  IF file_data = None
                   THEN Set(h, LastReply(t, "NotFound", n))
                   ELSE Set(h, LastReply(t, "ConfirmPrompt", n))
    /\ started' = started + 1
    /\ UNCHANGED <<md5, files, disk, s3_client, bucket, fs, bench, progress>>

\* The route "confirm_delete_<id>" of handle_callbacks up to its first
\* suspension: the identifier is cut out of callback_query.data and
\* callback_query.answer("Deleting file...") is called.
confirm_delete(h, file_id) ==
    Set(h, [Fresh("delete") EXCEPT !.pc = "answering", !.file_id = file_id])

\* The button "confirm_delete_<id>" is pressed.
ConfirmDelete(h) ==
    /\ Free(h)
    /\ \E file_id \in Ids : confirm_delete(h, file_id)
    /\ started' = started + 1
    /\ UNCHANGED <<md5, files, disk, s3_client, bucket, fs, bench, progress>>

\* callback_query.answer raises and the exception leaves the handler, or it
\* returns: the lookup, then the not-found edit or the call of the "Deleting
\* file from cloud storage..." edit.
DeleteAnswered(h) ==
    /\ task[h].pc = "answering"
    /\ task[h].op = "delete"
    /\ \E n \in NotifyOutcomes, n2 \in NotifyOutcomes :
          LET file_data == get_file(files, task[h].file_id)
              t == [task[h] EXCEPT !.file_data = file_data]
          IN  IF n = "raise"
              THEN n2 = "ok" /\ Set(h, Propagated(task[h]))
              ELSE IF file_data = None
              THEN Set(h, LastReply(t, "NotFound", n2))
              ELSE n2 = "ok" /\ Set(h, [t EXCEPT !.pc = "confirming"])
    /\ UNCHANGED <<md5, files, disk, s3_client, bucket, fs, started, bench, progress>>

\* The "Deleting file..." edit returns or raises (there is no try block);
\* storage.delete_file runs up to its suspension: it returns False at once
\* when the client is not configured, and the handler then issues the
\* failure edit.
DeleteConfirmed(h) ==
    /\ task[h].pc = "confirming"
    /\ \E n \in NotifyOutcomes, n2 \in NotifyOutcomes :
          LET t == task[h]
          IN  IF n = "raise"
              THEN n2 = "ok" /\ Set(h, Propagated(t))
              ELSE IF ~s3_client
              THEN Set(h, LastReply([t EXCEPT !.backend = "fail"],
                                    "BackendDeleteFailed", n2))
              ELSE n2 = "ok" /\ Set(h, [t EXCEPT !.pc = "deleting", !.calls = {"delete"}])
    /\ UNCHANGED <<md5, files, disk, s3_client, bucket, fs, started, bench, progress>>

\* The record deleted whatever the backend answered.
DeleteStoreUnconditional(d, file, wasabi_success, file_id, io) ==
    LET r == delete_file(d, file, file_id, io)
    IN  [files |-> r.files, disk |-> r.disk]

\* "if wasabi_success:" the record is deleted from the database, else kept.
DeleteStore(d, file, wasabi_success, file_id, io) ==
    IF wasabi_success
    THEN LET r == delete_file(d, file, file_id, io)
         IN  [files |-> r.files, disk |-> r.disk]
    ELSE [files |-> d, disk |-> file]

\* On the worker thread of run_in_executor the S3 client's delete_object
\* completes (the object is gone) or raises; the bool storage.delete_file
\* will return is settled (task.backend) while the handler is still
\* suspended.
DeleteEffect(h) ==
    /\ task[h].pc = "deleting"
    /\ \E out \in BackendOutcomes :
          LET t == task[h]
              wasabi_success == storage_delete_file(s3_client, out)
          IN  /\ bucket' = IF out = "ok"
                           THEN bucket \ {t.file_data[1].wasabi_key} ELSE bucket
              /\ Set(h, [t EXCEPT !.pc = "deleted",
                                  !.backend = IF wasabi_success THEN "ok" ELSE "fail"])
    /\ UNCHANGED <<md5, files, disk, s3_client, fs, started, bench, progress>>

\* The handler resumes on the event loop with the bool storage.delete_file
\* returned, deletes the record and issues the result message.
DeleteDone(h) ==
    /\ task[h].pc = "deleted"
    /\ \E n \in NotifyOutcomes :
       \E io \in SaveOutcomes(DictDel(files, task[h].file_id)) :
          LET t == task[h]
              wasabi_success == t.backend = "ok"
              db == DeleteStore(files, disk, wasabi_success, t.file_id, io)
          IN  /\ wasabi_success \/ io = SaveOk
              /\ files' = db.files
              /\ disk' = db.disk
              /\ Set(h, LastReply(t, IF wasabi_success THEN "Deleted"
                                     ELSE "BackendDeleteFailed", n))
    /\ UNCHANGED <<md5, s3_client, bucket, fs, started, bench, progress>>

-----------------------------------------------------------------------------
(* Progress reporting: upload_progress / download_progress inside
   WasabiStorage (called by the S3 client on its worker threads) and
   progress_callback (called on the event loop) *)

\* Size in bytes of the file whose transfer is reported.
TotalBytes == 100

\* (current / total) * 100 is computed in IEEE-754 doubles.  With total = 100
\* the result is the integer current, except that it is one rounding error
\* above it for the numerators in RoundedUp and one below it for those in
\* RoundedDown (55 / 100 * 100 = 55.00000000000001, 29 / 100 * 100 =
\* 28.999999999999996).
RoundedUp == {7, 14, 28, 55, 56}
RoundedDown == {29, 57, 58}

\* A double near an integer n, in quarters: 4n, or 4n + 1, 4n - 1 for the
\* neighbours of n.  Differences of such values and the comparisons with 5
\* and 100 made by the code are exact in doubles, so they are the integer
\* comparisons of the quarters.
Quarters(n) == 4 * n

percentage_of(current, total) ==
    Quarters((current * 100) \div total)
        + (IF current \in RoundedUp THEN 1 ELSE IF current \in RoundedDown THEN -1 ELSE 0)

\* "if percentage - last_percentage >= 5 or percentage >= 100"
Due(percentage, last_percentage) ==
    \/ percentage - last_percentage >= Quarters(5)
    \/ percentage >= Quarters(100)

\* asyncio.get_event_loop() on a worker thread of the S3 client raises
\* RuntimeError (no current event loop in that thread).
loop_in_thread == FALSE

\* upload_progress (download_progress is the same code): the new value of the
\* closure's last_percentage, whether the sample passed the throttle, and
\* whether a progress task was created for it (the bare except swallows the
\* RuntimeError).
upload_progress(last_percentage, bytes_transferred, file_size) ==
    LET percentage == percentage_of(bytes_transferred, file_size)
    IN  IF Due(percentage, last_percentage)
        THEN [last_percentage |-> percentage, edited |-> TRUE, created |-> loop_in_thread]
        ELSE [last_percentage |-> last_percentage, edited |-> FALSE, created |-> FALSE]

\* What message.edit_text does: it returns, or raises MessageNotModified,
\* FloodWait or another error.
EditOutcomes == {"ok", "not_modified", "flood_wait", "error"}

\* The except clauses that let an error other than MessageNotModified and
\* FloodWait leave progress_callback.
progress_except_narrow(n) == n = "error"

\* The except clauses of progress_callback: does the exception leave it?
\* (MessageNotModified: pass; FloodWait: sleep; Exception: pass.)
progress_except(n) == FALSE

\* What becomes of a call of message.edit_text inside progress_callback:
\* whether the edit reached the message and whether an exception leaves the
\* function.
edit_text_outcome(n) ==
    [delivered |-> (n = "ok"), raised |-> n # "ok" /\ progress_except(n)]

\* progress_callback that compares the distance in either direction.
progress_callback_either_way(last_percentage, current, total, n) ==
    LET percentage == percentage_of(current, total)
        away == IF percentage >= last_percentage THEN percentage - last_percentage
                ELSE last_percentage - percentage
    IN  IF away >= Quarters(5) \/ percentage >= Quarters(100)
        THEN [last_percentage |-> percentage, edited |-> TRUE,
              delivered |-> edit_text_outcome(n).delivered,
              raised |-> edit_text_outcome(n).raised]
        ELSE [last_percentage |-> last_percentage, edited |-> FALSE,
              delivered |-> FALSE, raised |-> FALSE]

\* progress_callback that lets every sample above the last one through.
progress_callback_any_advance(last_percentage, current, total, n) ==
    LET percentage == percentage_of(current, total)
    IN  IF percentage > last_percentage \/ percentage >= Quarters(100)
        THEN [last_percentage |-> percentage, edited |-> TRUE,
              delivered |-> edit_text_outcome(n).delivered,
              raised |-> edit_text_outcome(n).raised]
        ELSE [last_percentage |-> last_percentage, edited |-> FALSE,
              delivered |-> FALSE, raised |-> FALSE]

\* progress_callback: the new value of progress_callback.last_percentage,
\* whether edit_text was called, whether the edit reached the message, and
\* whether an exception left the function.
progress_callback(last_percentage, current, total, n) ==
    LET percentage == percentage_of(current, total)
    IN  IF Due(percentage, last_percentage)
        THEN [last_percentage |-> percentage, edited |-> TRUE,
              delivered |-> edit_text_outcome(n).delivered,
              raised |-> edit_text_outcome(n).raised]
        ELSE [last_percentage |-> last_percentage, edited |-> FALSE,
              delivered |-> FALSE, raised |-> FALSE]

\* No direct FileDatabase call has been observed.
NoCall == [op |-> "none", file_id |-> "", file_data |-> None, had |-> FALSE,
           ret |-> FALSE, found |-> None, rd |-> "ok"]

NoBench == [last |-> NoCall, persisted |-> <<>>, pure |-> TRUE, added |-> {}]

\* The callers of one throttle that can be inside it at once: for
\* progress_callback the handlers whose transfers report on the event loop
\* (its attribute last_percentage is one for the process), for
\* upload_progress the worker threads of the S3 client in one transfer.
Callers == 1 .. MaxCallers

\* Nobody is inside the throttle.
Outside == [c \in Callers |-> None]

\* The throttles of a process and what came of the samples.
\* side: which code is fed ("display": progress_callback, "transfer":
\* upload_progress); mode: "sweep" has one caller feed 0, 1, .., 100 percent
\* in order, "free" has every caller feed any of FreeSamples in any order;
\* last_percentage: the throttle's variable; fed: the last sample decided,
\* in percent; edited: it passed the throttle; shown: the percent of the
\* last sample that passed (0 before any); inside: per caller, where it is
\* in the function and with which sample ("store": a worker thread between
\* the test and the assignment; "edit": suspended in edit_text; "sleep":
\* suspended in asyncio.sleep); delivered: the last edit that returned
\* reached its message; seen: the percent of the last edit that reached a
\* message; seen_of: the same per caller (-1 before any); undelivered: an
\* edit raised; run: the next sample of the sweep; at: the samples of the
\* sweep that passed; tasks: progress tasks created on the event loop; tick:
\* flips with every sample decided; result: "running", then what the
\* transfer returned; nth: the number of the transfer in this process;
\* first: the samples that passed in the first transfer, if its sweep ran to
\* the end.
NoProgress ==
    [side |-> "none", mode |-> "none", last_percentage |-> 0, fed |-> -1,
     edited |-> FALSE, shown |-> 0, inside |-> Outside, delivered |-> FALSE,
     seen |-> -1, seen_of |-> [c \in Callers |-> -1],
     undelivered |-> FALSE, run |-> 0, at |-> {}, tasks |-> 0, tick |-> 0,
     result |-> "none", nth |-> 0, first |-> None]

\* Samples fed in free order, in percent of TotalBytes.
FreeSamples == {0, 3, 5, 30, 50, 55, 60, 100}

SamplesNow ==
    IF progress.mode = "sweep"
    THEN {k \in 0 .. 100 : k = progress.run}
    ELSE FreeSamples

CallersNow == IF progress.mode = "sweep" THEN {1} ELSE Callers

\* A transfer starts: its throttle state is fresh (last_percentage = 0).
InitProgress ==
    /\ md5 = NoDigests
    /\ disk = None
    /\ files = <<>>
    /\ s3_client = TRUE
    /\ bucket = {}
    /\ fs = NoFiles
    /\ task = [h \in Tasks |-> IdleTask]
    /\ started = 0
    /\ bench = NoBench
    /\ \E side \in {"display", "transfer"}, mode \in {"sweep", "free"} :
          progress = [NoProgress EXCEPT !.side = side, !.mode = mode,
                                        !.result = "running", !.nth = 1]

\* The throttle has decided the sample k of caller c with the result r, and
\* c is left at the place where (None: it has returned).
Sampled(c, k, r, where) ==
    progress' = [progress EXCEPT
        !.last_percentage = r.last_percentage,
        !.fed = k,
        !.edited = r.edited,
        !.shown = IF r.edited THEN k ELSE @,
        !.inside[c] = where,
        !.run = IF progress.mode = "sweep" THEN @ + 1 ELSE @,
        !.at = IF progress.mode = "sweep" /\ r.edited THEN @ \cup {k} ELSE @,
        !.tasks = IF r.edited /\ r.created THEN @ + 1 ELSE @,
        !.tick = 1 - @]

\* The messaging library reports current / total of a handler's transfer to
\* progress_callback on the event loop and awaits it before it goes on.  The
\* callback runs up to its suspension: the test, the assignment to
\* progress_callback.last_percentage and the call of message.edit_text; a
\* sample that does not pass returns at once.
FeedDisplay ==
    /\ progress.side = "display"
    /\ progress.result = "running"
    /\ \E c \in CallersNow, k \in SamplesNow :
          LET current == (k * TotalBytes) \div 100
              r == progress_callback(progress.last_percentage, current, TotalBytes, "ok")
          IN  /\ progress.inside[c] = None
              /\ Sampled(c, k, [last_percentage |-> r.last_percentage,
                                edited |-> r.edited, created |-> FALSE],
                         IF r.edited THEN Some([in |-> "edit", k |-> k]) ELSE None)
    /\ UNCHANGED <<md5, files, disk, s3_client, bucket, fs, task, started, bench>>

\* message.edit_text returns or raises in the callback of caller c: the
\* except clauses take what it raises, and on FloodWait the callback goes
\* on to await asyncio.sleep.
DisplayEdited ==
    /\ progress.side = "display"
    /\ \E c \in Callers, n \in EditOutcomes :
          /\ progress.inside[c] # None
          /\ progress.inside[c][1].in = "edit"
          /\ LET k == progress.inside[c][1].k
                 o == edit_text_outcome(n)
             IN  progress' = [progress EXCEPT
                    !.inside[c] = IF n = "flood_wait"
                                  THEN Some([in |-> "sleep", k |-> k]) ELSE None,
                    !.delivered = o.delivered,
                    !.seen = IF o.delivered THEN k ELSE @,
                    !.seen_of[c] = IF o.delivered THEN k ELSE @,
                    !.undelivered = @ \/ ~o.delivered,
                    !.result = IF o.raised THEN "aborted" ELSE @]
    /\ UNCHANGED <<md5, files, disk, s3_client, bucket, fs, task, started, bench>>

\* asyncio.sleep(e.value) returns and the callback of caller c with it.
DisplaySlept ==
    /\ progress.side = "display"
    /\ \E c \in Callers :
          /\ progress.inside[c] # None
          /\ progress.inside[c][1].in = "sleep"
          /\ progress' = [progress EXCEPT !.inside[c] = None]
    /\ UNCHANGED <<md5, files, disk, s3_client, bucket, fs, task, started, bench>>

\* The S3 client calls upload_progress on one of its worker threads
\* (max_concurrency=10, use_threads=True): the thread reads last_percentage
\* and tests the sample.  The assignment that follows a passed test is not
\* protected against the other threads, which can test in between.
FeedTransfer ==
    /\ progress.side = "transfer"
    /\ progress.result = "running"
    /\ \E c \in CallersNow, k \in SamplesNow :
          LET bytes_transferred == (k * TotalBytes) \div 100
              r == upload_progress(progress.last_percentage, bytes_transferred,
                                   TotalBytes)
          IN  /\ progress.inside[c] = None
              /\ IF r.edited
                 THEN progress' = [progress EXCEPT
                         !.inside[c] = Some([in |-> "store", k |-> k])]
                 ELSE Sampled(c, k, r, None)
    /\ UNCHANGED <<md5, files, disk, s3_client, bucket, fs, task, started, bench>>

\* The worker thread c assigns its percentage to last_percentage and tries
\* to create the progress task.
TransferStored ==
    /\ progress.side = "transfer"
    /\ \E c \in Callers :
          /\ progress.inside[c] # None
          /\ progress.inside[c][1].in = "store"
          /\ LET k == progress.inside[c][1].k
                 bytes_transferred == (k * TotalBytes) \div 100
             IN  Sampled(c, k, [last_percentage |->
                                   percentage_of(bytes_transferred, TotalBytes),
                                edited |-> TRUE, created |-> loop_in_thread], None)
    /\ UNCHANGED <<md5, files, disk, s3_client, bucket, fs, task, started, bench>>

\* The transfer returns to its caller, every callback having returned.
TransferEnds ==
    /\ progress.result = "running"
    /\ progress.inside = Outside
    /\ \E out \in BackendOutcomes :
          progress' = [progress EXCEPT !.result = IF out = "ok" THEN "ok" ELSE "fail"]
    /\ UNCHANGED <<md5, files, disk, s3_client, bucket, fs, task, started, bench>>

\* The throttle variable a new transfer starts with.  upload_file and
\* download_file set "last_percentage = 0" in each call; progress_callback
\* keeps it in the function attribute progress_callback.last_percentage, set
\* to 0 only "if not hasattr(progress_callback, 'last_percentage')".
last_percentage_at_start(side, last_percentage) ==
    IF side = "transfer" THEN 0 ELSE last_percentage

\* The next transfer of the same process starts after one has ended.
NextTransfer ==
    /\ progress.result \in {"ok", "fail"}
    /\ progress.nth < MaxTransfers
    /\ progress' = [NoProgress EXCEPT
          !.side = progress.side,
          !.mode = progress.mode,
          !.last_percentage = last_percentage_at_start(progress.side,
                                                       progress.last_percentage),
          !.result = "running",
          !.nth = progress.nth + 1,
          !.first = IF progress.mode = "sweep" /\ progress.run = 101
                    THEN Some(progress.at) ELSE None]
    /\ UNCHANGED <<md5, files, disk, s3_client, bucket, fs, task, started, bench>>

NextProgress ==
    \/ FeedDisplay \/ DisplayEdited \/ DisplaySlept
    \/ FeedTransfer \/ TransferStored
    \/ TransferEnds \/ NextTransfer

SpecProgress == InitProgress /\ [][NextProgress]_vars

-----------------------------------------------------------------------------
(* The bot: construction and the event loop *)

\* The record an earlier run of the bot left for message 1, ingested under
\* the first digest at an instant before this run.
EarlierRecord == file_metadata_of(Messages[1], Digests[1], -1)

\* What a starting process finds of earlier runs, the database file and the
\* bucket: nothing (first start); the document {} (every file deleted
\* again); a document with one record and its object in the bucket; a file
\* cut short by a failed save of the empty mapping.
FoundAtStart ==
    {[disk |-> None, bucket |-> {}],
     [disk |-> Some(json_dump(<<>>)), bucket |-> {}],
     [disk |-> Some(json_dump(<<[k |-> Digests[1], v |-> EarlierRecord]>>)),
      bucket |-> {EarlierRecord.wasabi_key}],
     [disk |-> Some(json_truncated(<<>>, 0)), bucket |-> {}]}

\* storage = WasabiStorage(); file_db = FileDatabase(FILES_DB): the client is
\* configured or not, the mapping is loaded from the database file found.
\* No handler runs yet and there are no temporary files.  (The digests md5
\* gave in earlier runs were for texts with earlier instants, which this run
\* does not hash again.)
Init ==
    /\ md5 = NoDigests
    /\ \E found \in FoundAtStart :
          /\ disk = found.disk
          /\ bucket = found.bucket
          /\ files = _load_database(found.disk, "ok")
    /\ s3_client \in BOOLEAN
    /\ fs = NoFiles
    /\ task = [h \in Tasks |-> IdleTask]
    /\ started = 0
    /\ bench = NoBench
    /\ progress = NoProgress

Next ==
    \E h \in Tasks :
        \/ StartIngest(h)
        \/ IngestStarted(h)
        \/ StagingDone(h)
        \/ UploadEffect(h)
        \/ UploadDone(h)
        \/ NotifyDone(h)
        \/ ExceptClause(h)
        \/ StartRetrieve(h)
        \/ RetrievePrepared(h)
        \/ DownloadEffect(h)
        \/ DownloadDone(h)
        \/ SendingDone(h)
        \/ DeliveryDone(h)
        \/ CleanupDone(h)
        \/ ListCommand(h)
        \/ StreamCommand(h)
        \/ WebCommand(h)
        \/ CallbackQuery(h)
        \/ CallbackAnswered(h)
        \/ DeleteCommand(h)
        \/ ConfirmDelete(h)
        \/ DeleteAnswered(h)
        \/ DeleteConfirmed(h)
        \/ DeleteEffect(h)
        \/ DeleteDone(h)

Spec == Init /\ [][Next]_vars

-----------------------------------------------------------------------------
(* FileDatabase on its own: direct calls and restarts *)

\* Records handed to add_file.
BenchRecords == {file_metadata_of(Messages[m], Digests[1], 0) : m \in {1, 2}}

\* Database files a process can find at start: none, a saved mapping, or a
\* file left by an interrupted write.
InitialDisks ==
    {None, Some(json_dump(<<>>)), Some(json_truncated(<<>>, 0))}
        \cup {Some(json_dump(<<[k |-> Digests[1], v |-> r]>>)) : r \in BenchRecords}

\* bench.last: the call just made (had: a record for file_id was present
\* before it; ret, found: what it returned).  bench.persisted: the mapping of
\* the last save that completed (at start, the mapping loaded).  bench.pure
\* and bench.added: only add_file calls with pairwise distinct ids were made
\* on a store that started empty, and their ids.
InitDB ==
    /\ md5 = NoDigests
    /\ disk \in InitialDisks
    /\ files = _load_database(disk, "ok")
    /\ s3_client = FALSE
    /\ bucket = {}
    /\ fs = NoFiles
    /\ task = [h \in Tasks |-> IdleTask]
    /\ started = 0
    /\ bench = [NoBench EXCEPT !.persisted = files, !.pure = (files = <<>>)]
    /\ progress = NoProgress

Persisted(io, d) == IF io.kind = "ok" THEN d ELSE bench.persisted

DbAdd ==
    \E file_id \in Ids, file_data \in BenchRecords :
    \E io \in SaveOutcomes(DictSet(files, file_id, file_data)) :
        LET db == add_file(files, disk, file_id, file_data, io)
        IN  /\ files' = db.files
            /\ disk' = db.disk
            /\ bench' = [last |-> [NoCall EXCEPT !.op = "add_file", !.file_id = file_id,
                                       !.file_data = Some(file_data),
                                       !.had = (file_id \in DictKeys(files))],
                         persisted |-> Persisted(io, db.files),
                         pure |-> bench.pure /\ file_id \notin bench.added,
                         added |-> bench.added \cup {file_id}]
            /\ UNCHANGED <<md5, s3_client, bucket, fs, task, started, progress>>

DbGet ==
    \E file_id \in Ids :
        /\ bench' = [bench EXCEPT !.last = [NoCall EXCEPT !.op = "get_file",
                                               !.file_id = file_id,
                                               !.had = (file_id \in DictKeys(files)),
                                               !.found = get_file(files, file_id)]]
        /\ UNCHANGED <<md5, files, disk, s3_client, bucket, fs, task, started, progress>>

DbDelete ==
    \E file_id \in Ids :
    \E io \in SaveOutcomes(DictDel(files, file_id)) :
        LET db == delete_file(files, disk, file_id, io)
        IN  /\ db.ret \/ io = SaveOk
            /\ files' = db.files
            /\ disk' = db.disk
            /\ bench' = [last |-> [NoCall EXCEPT !.op = "delete_file", !.file_id = file_id,
                                       !.had = (file_id \in DictKeys(files)),
                                       !.ret = db.ret],
                         persisted |-> IF db.ret THEN Persisted(io, db.files)
                                       ELSE bench.persisted,
                         pure |-> FALSE,
                         added |-> bench.added]
            /\ UNCHANGED <<md5, s3_client, bucket, fs, task, started, progress>>

\* The process restarts: FileDatabase(FILES_DB) is constructed again.
DbRestart ==
    \E rd \in ReadOutcomes :
        /\ files' = _load_database(disk, rd)
        /\ bench' = [bench EXCEPT !.last = [NoCall EXCEPT !.op = "restart", !.rd = rd],
                                  !.pure = FALSE]
        /\ UNCHANGED <<md5, disk, s3_client, bucket, fs, task, started, progress>>

\* The web server reads the database file for a page.
DbWebLoad ==
    \E rd \in ReadOutcomes :
        /\ bench' = [bench EXCEPT !.last = [NoCall EXCEPT !.op = "load_files_db", !.rd = rd,
                                               !.found = Some(load_files_db(disk, rd))]]
        /\ UNCHANGED <<md5, files, disk, s3_client, bucket, fs, task, started, progress>>

NextDB == DbAdd \/ DbGet \/ DbDelete \/ DbRestart \/ DbWebLoad

SpecDB == InitDB /\ [][NextDB]_vars

-----------------------------------------------------------------------------
(* FileDatabase: a caller that keeps the result of list_files *)

\* bench.listing: the object the caller holds; bench.listed: what it held
\* when list_files handed it out; bench.since: the store calls made since.
InitList ==
    /\ md5 = NoDigests
    /\ disk \in InitialDisks
    /\ files = _load_database(disk, "ok")
    /\ s3_client = FALSE
    /\ bucket = {}
    /\ fs = NoFiles
    /\ task = [h \in Tasks |-> IdleTask]
    /\ started = 0
    /\ bench = [listing |-> None, listed |-> <<>>, since |-> {}]
    /\ progress = NoProgress

ListTake ==
    /\ bench' = [listing |-> Some(list_files_object),
                 listed |-> list_files(files),
                 since |-> {}]
    /\ UNCHANGED <<md5, files, disk, s3_client, bucket, fs, task, started, progress>>

ListAdd ==
    \E file_id \in Ids, file_data \in BenchRecords :
    \E io \in SaveOutcomes(DictSet(files, file_id, file_data)) :
        LET db == add_file(files, disk, file_id, file_data, io)
        IN  /\ files' = db.files
            /\ disk' = db.disk
            /\ bench' = [bench EXCEPT !.since = @ \cup {"add_file"}]
            /\ UNCHANGED <<md5, s3_client, bucket, fs, task, started, progress>>

ListDelete ==
    \E file_id \in Ids :
    \E io \in SaveOutcomes(DictDel(files, file_id)) :
        LET db == delete_file(files, disk, file_id, io)
        IN  /\ db.ret \/ io = SaveOk
            /\ files' = db.files
            /\ disk' = db.disk
            /\ bench' = [bench EXCEPT !.since = @ \cup {"delete_file"}]
            /\ UNCHANGED <<md5, s3_client, bucket, fs, task, started, progress>>

NextList == ListTake \/ ListAdd \/ ListDelete

SpecList == InitList /\ [][NextList]_vars

\* The storage keys the records of a mapping name.
RecordKeys(d) == {r.wasabi_key : r \in DictValues(d)}

-----------------------------------------------------------------------------
(* generate_file_id on its own: the digests hashlib.md5 gives *)

MaxCalls == 2       \* calls of generate_file_id in one run

\* The (file_name, file_size) pairs generate_file_id is called with.
IdInputs == {<<"a.bin", 10>>, <<"a.bin", 137>>, <<"document", MAX_FILE_SIZE>>}

\* Readings of datetime.now() in the order of time: second and microsecond
\* within 2024-01-01T00:00.
Instants == <<[second |-> 0, microsecond |-> 241616],
              [second |-> 0, microsecond |-> 241617],
              [second |-> 0, microsecond |-> 574945],
              [second |-> 15, microsecond |-> 980213],
              [second |-> 19, microsecond |-> 601660],
              [second |-> 20, microsecond |-> 0]>>

\* The decimal digits of n, with zeros in front up to the width.
RECURSIVE ZeroPadded(_, _)
ZeroPadded(text, width) ==
    IF Len(text) >= width THEN text ELSE ZeroPadded("0" \o text, width)

\* datetime.isoformat(): YYYY-MM-DDTHH:MM:SS, followed by .ffffff when the
\* microsecond is not 0.
isoformat(now) ==
    "2024-01-01T00:00:" \o ZeroPadded(ToString(now.second), 2)
        \o (IF now.microsecond = 0 THEN ""
            ELSE "." \o ZeroPadded(ToString(now.microsecond), 6))

\* data = f"{file_name}_{file_size}_{datetime.now().isoformat()}"
data_text(file_name, file_size, now) ==
    file_name \o "_" \o ToString(file_size) \o "_" \o isoformat(now)

\* hashlib.md5(data.encode()).hexdigest() for the texts of IdInputs at
\* Instants: the 32 characters of the digest.
md5_hexdigest(data) ==
    CASE data = "a.bin_10_2024-01-01T00:00:00.241616" ->
           <<"a","1","f","0","a","4","e","1","a","e","3","f","2","a","7","3",
            "d","4","4","c","7","2","d","1","6","3","6","1","d","5","3","a">>
      [] data = "a.bin_10_2024-01-01T00:00:00.241617" ->
           <<"4","1","b","5","5","0","4","3","d","8","9","1","9","d","c","2",
            "5","d","1","a","7","6","6","4","d","3","0","c","9","f","b","b">>
      [] data = "a.bin_10_2024-01-01T00:00:00.574945" ->
           <<"a","6","0","6","1","8","d","1","8","7","1","9","b","1","4","b",
            "1","3","5","1","d","1","c","e","e","7","c","4","a","8","a","4">>
      [] data = "a.bin_10_2024-01-01T00:00:15.980213" ->
           <<"c","0","c","9","9","a","b","1","9","8","1","9","7","3","4","6",
            "6","6","c","5","4","d","2","7","1","1","7","6","2","b","2","6">>
      [] data = "a.bin_10_2024-01-01T00:00:19.601660" ->
           <<"c","0","c","9","9","a","b","1","9","8","1","9","0","b","9","5",
            "a","0","1","f","f","a","e","8","6","2","8","6","2","0","c","4">>
      [] data = "a.bin_10_2024-01-01T00:00:20" ->
           <<"a","d","0","b","d","5","0","1","3","f","9","7","6","c","e","0",
            "b","e","5","a","2","1","0","8","3","b","2","3","3","8","0","5">>
      [] data = "a.bin_137_2024-01-01T00:00:00.241616" ->
           <<"4","8","5","e","9","0","5","9","2","f","a","a","2","6","8","8",
            "b","1","2","8","b","7","a","a","5","f","b","5","2","7","a","f">>
      [] data = "a.bin_137_2024-01-01T00:00:00.241617" ->
           <<"c","5","c","1","6","8","2","a","3","1","3","8","c","1","b","e",
            "a","1","c","4","b","8","7","d","8","0","d","b","d","9","3","1">>
      [] data = "a.bin_137_2024-01-01T00:00:00.574945" ->
           <<"4","8","5","e","9","0","5","9","2","f","a","a","b","d","e","5",
            "2","2","e","e","9","d","d","c","5","d","d","9","f","9","4","d">>
      [] data = "a.bin_137_2024-01-01T00:00:15.980213" ->
           <<"8","3","6","9","2","1","4","d","f","c","9","3","4","4","2","3",
            "b","b","8","8","a","b","5","8","8","b","2","5","9","3","9","9">>
      [] data = "a.bin_137_2024-01-01T00:00:19.601660" ->
           <<"a","2","1","e","2","3","a","b","1","a","e","a","1","f","e","2",
            "3","9","4","9","f","c","e","a","3","1","a","c","1","f","1","c">>
      [] data = "a.bin_137_2024-01-01T00:00:20" ->
           <<"a","9","c","9","b","e","9","c","c","e","4","3","3","7","1","5",
            "c","2","2","c","b","0","8","e","6","c","e","4","4","0","4","b">>
      [] data = "document_1073741824_2024-01-01T00:00:00.241616" ->
           <<"5","4","2","8","a","7","9","4","5","8","e","e","9","d","5","8",
            "1","0","a","f","9","1","4","7","6","b","6","f","6","4","5","5">>
      [] data = "document_1073741824_2024-01-01T00:00:00.241617" ->
           <<"7","b","9","b","f","1","9","b","a","5","8","d","a","5","8","7",
            "9","9","d","2","2","9","f","2","3","f","7","4","2","8","6","8">>
      [] data = "document_1073741824_2024-01-01T00:00:00.574945" ->
           <<"f","9","7","1","9","d","1","e","9","f","2","5","6","4","2","6",
            "6","f","f","e","1","3","e","0","c","7","b","d","c","6","c","d">>
      [] data = "document_1073741824_2024-01-01T00:00:15.980213" ->
           <<"e","5","7","f","b","1","b","1","9","6","6","2","5","e","8","0",
            "4","b","2","f","3","9","e","e","e","9","a","f","b","1","8","1">>
      [] data = "document_1073741824_2024-01-01T00:00:19.601660" ->
           <<"c","1","7","0","d","a","8","8","5","b","f","c","e","1","f","9",
            "a","5","1","2","9","3","f","9","e","3","5","e","0","2","4","5">>
      [] data = "document_1073741824_2024-01-01T00:00:20" ->
           <<"5","9","c","5","7","a","6","0","6","2","4","0","6","6","1","f",
            "0","c","e","9","d","d","d","f","a","c","6","0","c","1","2","e">>

\* generate_file_id(file_name, file_size) with datetime.now() reading now:
\* hexdigest()[:12], a str given as the sequence of its characters.
generate_file_id_at(file_name, file_size, now) ==
    SubSeq(md5_hexdigest(data_text(file_name, file_size, now)), 1, 12)

\* bench.calls: the calls made so far, each with its input, the index of its
\* instant and the identifier returned.
InitId ==
    /\ md5 = NoDigests
    /\ disk = None
    /\ files = <<>>
    /\ s3_client = TRUE
    /\ bucket = {}
    /\ fs = NoFiles
    /\ task = [h \in Tasks |-> IdleTask]
    /\ started = 0
    /\ progress = NoProgress
    /\ bench = [calls |-> <<>>]

\* One call of generate_file_id, not before the instant of the call before.
GenerateId ==
    /\ Len(bench.calls) < MaxCalls
    /\ \E input \in IdInputs, i \in DOMAIN Instants :
          /\ bench.calls # <<>> => i >= bench.calls[Len(bench.calls)].at
          /\ bench' = [bench EXCEPT !.calls =
                Append(@, [input |-> input, at |-> i,
                           file_id |-> generate_file_id_at(input[1], input[2],
                                                           Instants[i])])]
    /\ UNCHANGED <<md5, files, disk, s3_client, bucket, fs, task, started, progress>>

NextId == GenerateId

SpecId == InitId /\ [][NextId]_vars

-----------------------------------------------------------------------------
(* One requester's session, each request sent when the one before has been
   answered: a file is ingested, its stream link is asked for, and it is
   deleted by the confirmation button *)

\* No handler is running.
Answered == \A h \in Tasks : Finished(h)

\* The handler the dispatcher gives the next request to.
NextHandler(h) ==
    /\ Finished(h)
    /\ \A g \in Tasks : g < h => ~Finished(g)

\* The request answered last was given to handler h, was of the kind op and
\* ended with exactly the result message signal.
LastAnswer(h, op, signal) ==
    /\ Answered
    /\ NextHandler(h)
    /\ task[h].op = op
    /\ task[h].pc = "done"
    /\ task[h].sent = {signal}
    /\ ~task[h].raised

\* The process starts as in Init; bench.before and bench.before_disk keep
\* the mapping and the database file the session starts with.
InitTrip ==
    /\ md5 = NoDigests
    /\ \E found \in FoundAtStart :
          /\ disk = found.disk
          /\ bucket = found.bucket
          /\ files = _load_database(found.disk, "ok")
    /\ s3_client \in BOOLEAN
    /\ fs = NoFiles
    /\ task = [h \in Tasks |-> IdleTask]
    /\ started = 0
    /\ progress = NoProgress
    /\ bench = [before |-> files, before_disk |-> disk]

\* The first request of the session: a media message.
TripIngest(h) ==
    /\ started = 0
    /\ StartIngest(h)

\* The ingest was answered "Upload Complete" with the identifier, and the
\* requester sends /stream with that identifier.
TripStream(h) ==
    /\ started = 1
    /\ LastAnswer(h, "ingest", "UploadComplete")
    /\ stream_command(h, Some(task[h].file_id))
    /\ started' = started + 1
    /\ UNCHANGED <<md5, files, disk, s3_client, bucket, fs, bench, progress>>

\* The /stream request was answered, and the requester presses the button
\* "confirm_delete_<id>" for the same identifier.
TripDelete(h) ==
    /\ started = 2
    /\ Answered
    /\ NextHandler(h)
    /\ task[h].op = "stream"
    /\ confirm_delete(h, task[h].file_id)
    /\ started' = started + 1
    /\ UNCHANGED <<md5, files, disk, s3_client, bucket, fs, bench, progress>>

NextTrip ==
    \E h \in Tasks :
        \/ TripIngest(h)
        \/ IngestStarted(h)
        \/ StagingDone(h)
        \/ UploadEffect(h)
        \/ UploadDone(h)
        \/ NotifyDone(h)
        \/ ExceptClause(h)
        \/ TripStream(h)
        \/ TripDelete(h)
        \/ DeleteAnswered(h)
        \/ DeleteConfirmed(h)
        \/ DeleteEffect(h)
        \/ DeleteDone(h)

SpecTrip == InitTrip /\ [][NextTrip]_vars

-----------------------------------------------------------------------------
(* The database file between the open(db_file, 'w') and the close of one
   _save_database, and the web server reading it meanwhile *)

\* bench.writing: a _save_database has the file open; bench.old: the mapping
\* the file held before it; bench.read: what the web server's last load
\* returned; bench.during: that load ran while the file was open.
InitWrite ==
    /\ md5 = NoDigests
    /\ disk \in InitialDisks
    /\ files = _load_database(disk, "ok")
    /\ s3_client = TRUE
    /\ bucket = RecordKeys(files)
    /\ fs = NoFiles
    /\ task = [h \in Tasks |-> IdleTask]
    /\ started = 0
    /\ progress = NoProgress
    /\ bench = [writing |-> FALSE, old |-> files, read |-> None, during |-> FALSE]

\* add_file or delete_file changes the mapping and _save_database opens the
\* file with 'w': the file is there with 0 bytes, or the open raises, the
\* file stays as it was and the save is over.
WriteBegin ==
    /\ ~bench.writing
    /\ \E d2 \in {DictSet(files, i, r) : i \in Ids, r \in BenchRecords}
                  \cup {DictDel(files, i) : i \in DictKeys(files)},
          opened \in BOOLEAN :
          /\ files' = d2
          /\ disk' = IF opened THEN Some(json_truncated(d2, 0))
                     ELSE _save_database(d2, disk, [kind |-> "open_fails", n |-> 0])
          /\ bench' = [bench EXCEPT !.writing = opened,
                                    !.old = _load_database(disk, "ok"),
                                    !.read = None, !.during = FALSE]
    /\ UNCHANGED <<md5, s3_client, bucket, fs, task, started, progress>>

\* json.dump has written the document into the file object's buffer (a
\* mapping of this size stays below the buffer's size, so nothing has reached
\* the file) and the with block closes the file: the buffer is written out
\* whole, or the write is cut short by the system (file size limit, full
\* disk) after some of the entries, or before the first, and the error is
\* logged and swallowed.
WriteEnd ==
    /\ bench.writing
    /\ \E io \in {o \in SaveOutcomes(files) : o.kind # "open_fails"} :
          disk' = _save_database(files, disk, io)
    /\ bench' = [bench EXCEPT !.writing = FALSE]
    /\ UNCHANGED <<md5, files, s3_client, bucket, fs, task, started, progress>>

\* The web server (another process) loads the file for a page.
WebRead ==
    /\ bench' = [bench EXCEPT !.read = Some(load_files_db(disk, "ok")),
                              !.during = bench.writing]
    /\ UNCHANGED <<md5, files, disk, s3_client, bucket, fs, task, started, progress>>

NextWrite == WriteBegin \/ WriteEnd \/ WebRead

SpecWrite == InitWrite /\ [][NextWrite]_vars

-----------------------------------------------------------------------------
(* Properties *)

\* The request that this step dispatches goes to handler h.
Dispatched(h) ==
    /\ started' # started
    /\ Finished(h)
    /\ \A g \in Tasks : g < h => ~Finished(g)

\* Handler h finishes its request in this step.
Ends(h) ==
    /\ task'[h].pc = "done"
    /\ task[h].pc \notin {"idle", "done"} \/ Dispatched(h)

\* Handler h is in the middle of an ingest, of a delete.
IngestRunning(h) == task[h].op = "ingest" /\ ~Finished(h)

DeleteRunning(h) == task[h].op = "delete" /\ ~Finished(h)

\* In this step handler h looks its identifier up in the store: a command
\* does so in the step that dispatches it, a button once
\* callback_query.answer has returned.
LooksUp(h) ==
    \/ Dispatched(h) /\ task'[h].pc # "answering"
    \/ /\ task[h].pc = "answering"
       /\ task'[h] # task[h]
       /\ ~(task'[h].raised /\ task'[h].sent = {})

\* In this step the ingest h resumes with upload_file's True and stores its
\* record; the delete h resumes with delete_file's True and drops its record.
StoresRecord(h) ==
    task[h].pc = "uploaded" /\ task[h].backend = "ok" /\ task'[h].pc # "uploaded"
DropsRecord(h) ==
    task[h].pc = "deleted" /\ task[h].backend = "ok" /\ task'[h].pc # "deleted"

\* No handler other than h is running.
Alone(h) == \A g \in Tasks \ {h} : Finished(g)

\* A record is added or replaced only in the step in which the ingest of its
\* id learns that the backend upload succeeded.
RecordOnlyAfterUpload ==
    [][\A id \in DictKeys(files') :
          DictGet(files', id) # DictGet(files, id)
          => \E h \in Tasks : /\ StoresRecord(h)
                              /\ task[h].file_id = id]_vars

\* C1: when an ingest whose backend upload failed finishes (no other handler
\* running), the store has no record for its id in memory or on disk, its
\* temporary file is removed and a transfer failure was signaled.
UploadFailureLeavesNothing ==
    [][\A h \in Tasks :
          (Ends(h) /\ Alone(h) /\ task'[h].op = "ingest" /\ task'[h].backend = "fail")
          => /\ task'[h].file_id \notin DictKeys(files')
             /\ task'[h].file_id \notin DictKeys(_load_database(disk', "ok"))
             /\ ~Exists(fs', IngestTemp(task'[h]))
             /\ "TransferFailed" \in task'[h].sent]_vars

\* C2: a delete whose backend call fails leaves the store as it was and
\* signals the failure; one whose backend call succeeds leaves no record for
\* the id and signals success; a record leaves the store only in the step in
\* which a delete of its id learns that the backend call succeeded.
DeleteFollowsBackend ==
    [][/\ \A h \in Tasks :
             /\ (Ends(h) /\ task'[h].op = "delete" /\ task'[h].backend = "fail")
                => /\ files' = files
                   /\ disk' = disk
                   /\ task'[h].sent = {"BackendDeleteFailed"}
             /\ (Ends(h) /\ task'[h].op = "delete" /\ task'[h].backend = "ok")
                => /\ task'[h].file_id \notin DictKeys(files')
                   /\ task'[h].sent = {"Deleted"}
       /\ \A id \in DictKeys(files) \ DictKeys(files') :
             \E h \in Tasks : /\ DropsRecord(h)
                              /\ task[h].file_id = id]_vars

\* C2 witness: one delete finished with a backend failure and another with a
\* backend success, and the record is gone.
DeleteBothWays ==
    \E g, h \in Tasks :
        /\ task[g].op = "delete" /\ task[g].pc = "done" /\ task[g].backend = "fail"
        /\ task[h].op = "delete" /\ task[h].pc = "done" /\ task[h].backend = "ok"
        /\ task[h].file_id \notin DictKeys(files)

\* C3: whenever no ingest and no delete is in progress, the storage keys of
\* the records are exactly the keys of the objects the backend holds.
StoreMatchesBackend ==
    (\A h \in Tasks : ~IngestRunning(h) /\ ~DeleteRunning(h))
    => RecordKeys(files) = bucket

\* C4: when an ingest finishes (no other handler running) after a failure at
\* a stage of its try block (staging, upload, persistence, an exception of any
\* step), its temporary file does not exist and no record for its id is
\* persisted.
FailedIngestLeavesNothing ==
    [][\A h \in Tasks :
          (/\ IngestRunning(h) /\ task'[h].pc = "done" /\ Alone(h)
           /\ \/ task'[h].staged \in {"none", "raise"}
              \/ task'[h].backend = "fail"
              \/ task'[h].raised)
          => /\ ~Exists(fs', IngestTemp(task'[h]))
             /\ task'[h].file_id \notin DictKeys(_load_database(disk', "ok"))]_vars

\* C5: when a retrieve whose download succeeded and whose file was handed to
\* the delivery collaborator finishes (no other handler running), the
\* temporary file is removed, whether the delivery returned or raised.
DeliveredTempRemoved ==
    [][\A h \in Tasks :
          (/\ Ends(h) /\ Alone(h) /\ task'[h].op = "retrieve" /\ task'[h].backend = "ok"
           /\ task'[h].delivery \in {"ok", "raise"})
          => ~Exists(fs', RetrieveTemp(task'[h]))]_vars

\* C6: when a retrieve whose backend download failed finishes (no other
\* handler running), no file exists at its temporary destination path.
FailedDownloadLeavesNoFile ==
    [][\A h \in Tasks :
          (/\ Ends(h) /\ Alone(h) /\ task'[h].op = "retrieve" /\ task'[h].backend = "fail"
           /\ "download" \in task'[h].calls)
          => ~Exists(fs', RetrieveTemp(task'[h]))]_vars

\* C7: an ingest whose declared size exceeds MAX_FILE_SIZE ends in the step
\* that dispatches it with the size-exceeded signal, without an identifier,
\* without staging and without a backend call, and that step leaves local
\* files, store and bucket unchanged.
OversizeRejectedFirst ==
    [][\A h \in Tasks :
          (/\ Dispatched(h) /\ task'[h].op = "ingest"
           /\ Messages[task'[h].msg].file_size > MAX_FILE_SIZE)
          => /\ task'[h].pc = "done"
             /\ task'[h].sent = {"SizeExceeded"}
             /\ task'[h].file_id = ""
             /\ task'[h].staged = "none"
             /\ task'[h].calls = {}
             /\ UNCHANGED <<md5, files, disk, bucket, fs>>]_vars

\* C7 witness: an oversize ingest was rejected while the store holds a record.
OversizeRejected ==
    \E h \in Tasks :
        /\ task[h].op = "ingest" /\ task[h].pc = "done"
        /\ Messages[task[h].msg].file_size > MAX_FILE_SIZE
        /\ task[h].sent = {"SizeExceeded"}
        /\ files # <<>>

\* C8: retrieve, stream link, web link, the delete prompt and delete, given
\* an id without a record, end in the step that looks the id up with the
\* not-found signal and no backend call, and that step leaves local files,
\* store and bucket unchanged.
UnknownIdNotFound ==
    [][\A h \in Tasks :
          (/\ LooksUp(h)
           /\ task'[h].op \in {"retrieve", "stream", "web", "delete_prompt", "delete"}
           /\ task'[h].file_id # ""
           /\ task'[h].file_id \notin DictKeys(files))
          => /\ task'[h].pc = "done"
             /\ task'[h].sent = {"NotFound"}
             /\ task'[h].calls = {}
             /\ UNCHANGED <<md5, files, disk, bucket, fs>>]_vars

\* C8 witness: a delete of an id without a record was answered not-found
\* while the store holds a record of another id.
UnknownIdAnswered ==
    \E h \in Tasks :
        /\ task[h].op = "delete" /\ task[h].pc = "done"
        /\ task[h].sent = {"NotFound"}
        /\ files # <<>>
        /\ task[h].file_id \notin DictKeys(files)

\* C9: right after add_file(id, r), get_file(id) is r; right after
\* delete_file(id), get_file(id) is None and the call returned whether id had
\* a record; after N add_file calls with pairwise distinct ids on an empty
\* store, list_files has exactly N records.
FileDatabaseCalls ==
    /\ bench.last.op = "add_file"
       => get_file(files, bench.last.file_id) = bench.last.file_data
    /\ bench.last.op = "delete_file"
       => /\ get_file(files, bench.last.file_id) = None
          /\ bench.last.ret = bench.last.had
    /\ bench.pure
       => /\ Len(list_files(files)) = Cardinality(bench.added)
          /\ DictKeys(list_files(files)) = bench.added

\* C9 witness: add_file was called for an id that had a record, on a store
\* that holds two records and has seen more than distinct adds.
FileDatabaseReplaced ==
    /\ bench.last.op = "add_file"
    /\ bench.last.had
    /\ Len(files) = 2
    /\ ~bench.pure

\* C10: after a restart that could read the database file, the mapping is the
\* one of the last save that completed.
RestartReflectsLastPersisted ==
    (bench.last.op = "restart" /\ bench.last.rd = "ok") => files = bench.persisted

\* C11: once add_file, or a delete_file that removed a record, has returned,
\* the database file holds the saved form of the in-memory mapping.
DiskMatchesMemory ==
    (\/ bench.last.op = "add_file"
     \/ bench.last.op = "delete_file" /\ bench.last.ret)
    => disk = Some(json_dump(files))

\* C12: an ingest whose add_file did not get the mapping into the database
\* file does not issue the upload-complete message.
PersistFailureNotSuccess ==
    [][\A h \in Tasks :
          (/\ StoresRecord(h)
           /\ disk' # Some(json_dump(files')))
          => "UploadComplete" \notin task'[h].sent]_vars

\* C13: a load (at start-up by the bot, or by the web server) of a database
\* file that is missing, cannot be read or does not hold a complete document
\* yields the empty mapping, and no load changes the file.
LoadYieldsEmpty ==
    [][LET unusable == \/ disk = None
                       \/ bench'.last.rd = "unreadable"
                       \/ ~disk[1].closed
       IN  /\ bench'.last.op = "restart"
              => disk' = disk /\ (unusable => files' = <<>>)
           /\ bench'.last.op = "load_files_db"
              => /\ disk' = disk
                 /\ files' = files
                 /\ unusable => bench'.last.found = Some(<<>>)]_vars

\* C13 witness: a restart read a database file that was cut short after its
\* first entry and came up with the empty mapping.
LoadedTruncatedFile ==
    /\ bench.last.op = "restart"
    /\ bench.last.rd = "ok"
    /\ disk # None
    /\ ~disk[1].closed
    /\ disk[1].entries # <<>>
    /\ files = <<>>

\* C14: a WasabiStorage call hands its caller a value and no exception.
\* Without a client the value is the failure value and the backend was not
\* called; the success value is returned only when the backend did the work
\* (the object is in the bucket after an upload and out of it after a delete,
\* the file is at the destination after a download, a link comes from the
\* client's presign call).
StorageNeverRaises ==
    [][\A h \in Tasks :
          LET t == task[h]
              t2 == task'[h]
              returned == /\ t2.backend \in {"ok", "fail"}
                          /\ Dispatched(h) \/ t.backend = "none"
          IN  /\ returned
                 => /\ ~s3_client => t2.backend = "fail" /\ t2.calls = {}
                    /\ t2.backend = "ok" /\ t2.op = "ingest" => IngestKey(t2) \in bucket'
                    /\ t2.backend = "ok" /\ t2.op = "retrieve"
                       => Exists(fs', RetrieveTemp(t2))
                    /\ t2.backend = "ok" /\ t2.op = "delete"
                       => t2.file_data[1].wasabi_key \notin bucket'
              /\ t.pc \in {"uploading", "downloading", "deleting"} /\ t2.pc # t.pc
                 => t2.backend \in {"ok", "fail"} /\ ~t2.raised
              /\ Dispatched(h) /\ t2.op \in {"stream", "web"} /\ t2.file_data # None
                 => /\ t2.sent \in {{"LinkIssued"}, {"LinkGenerationFailed"}}
                    /\ ~s3_client => t2.url = "" /\ t2.calls = {}
                    /\ t2.url # "" => "presign" \in t2.calls]_vars

\* C14 witness: the upload call of an ingest reached the backend, the backend
\* raised, and the handler went on with the value False.
UploadRaisedInside ==
    \E h \in Tasks :
        /\ task[h].op = "ingest"
        /\ task[h].pc = "notifying"
        /\ "upload" \in task[h].calls
        /\ task[h].backend = "fail"
        /\ ~task[h].raised
        /\ IngestKey(task[h]) \notin bucket

\* This step feeds a sample to the throttle.
SampleStep == progress'.tick # progress.tick

\* This step emits a notification for the sample it decides: progress_callback
\* calls message.edit_text for it, or upload_progress creates its progress
\* task on the event loop.
Emits ==
    /\ SampleStep
    /\ \/ progress'.side = "display" /\ progress'.edited
       \/ progress'.tasks # progress.tasks

\* C15: a notification is emitted for a sample only when the sample is at
\* least 5 percent above the last sample that passed the throttle, or is 100
\* percent, in progress_callback and in upload_progress / download_progress
\* alike.
ThrottleOnlyWhenDue ==
    [][Emits => \/ progress'.fed - progress.shown >= 5
                \/ progress'.fed >= 100]_vars

\* C15 witness: progress_callback was fed 0, 1, .., 9 percent, called
\* edit_text for 5 percent and for no other sample, and has just dropped 9.
EmittedAtFiveOnly ==
    /\ progress.side = "display"
    /\ progress.mode = "sweep"
    /\ progress.run = 10
    /\ progress.at = {5}
    /\ progress.fed = 9
    /\ ~progress.edited

\* C16: a fresh throttle fed 0, 1, .., 100 percent has let through exactly
\* the samples 5, 10, .., 100 (or these and 0), the last one being 100.
SweepPassesEveryFifth ==
    (progress.mode = "sweep" /\ progress.run = 101)
    => /\ \/ progress.at = {5 * i : i \in 1 .. 20}
          \/ progress.at = {5 * i : i \in 0 .. 20}
       /\ progress.shown = 100

\* C17: a sample that is not above the last sample that passed does not pass.
RepeatsAndRegressionsDropped ==
    [][(SampleStep /\ progress'.fed <= progress.shown) => ~progress'.edited]_vars

\* C18: every edit that reaches the progress message of a transfer shows a
\* percentage not below the one that message showed before, whatever the
\* callbacks of other transfers do in between; the samples of the worker
\* threads create no progress task and reach no message.
DeliveredInOrder ==
    [][/\ progress'.nth = progress.nth
          => \A c \in Callers : progress'.seen_of[c] >= progress.seen_of[c]
       /\ progress'.side = "transfer"
          => /\ progress'.seen = -1
             /\ progress'.tasks = 0]_vars

\* C18 witness: the sweep was fed to progress_callback, every edit reached the
\* message, the last one at 100 percent after twenty in all.
SweepDelivered ==
    /\ progress.side = "display"
    /\ progress.run = 101
    /\ ~progress.undelivered
    /\ progress.delivered
    /\ progress.seen = 100
    /\ Cardinality(progress.at) = 20

\* C19: a step of a progress callback (the throttle's decision on a sample,
\* the return or the exception of edit_text, the end of the sleep after
\* FloodWait) leaves the transfer running; none ends or aborts it.
NotificationFailureHarmless ==
    [][(SampleStep \/ progress'.inside # progress.inside)
       => progress'.result = "running"]_vars

\* C19 witness: an edit of the progress message raised and the transfer
\* returned success afterwards.
TransferSurvivedFailedEdit ==
    /\ progress.side = "display"
    /\ progress.undelivered
    /\ progress.result = "ok"

\* The actions in which a pending backend or collaborator call returns.
Returns(h) ==
    \/ IngestStarted(h) \/ StagingDone(h) \/ UploadEffect(h) \/ UploadDone(h)
    \/ NotifyDone(h) \/ ExceptClause(h)
    \/ RetrievePrepared(h) \/ DownloadEffect(h) \/ DownloadDone(h) \/ SendingDone(h)
    \/ DeliveryDone(h) \/ CleanupDone(h)
    \/ CallbackAnswered(h)
    \/ DeleteAnswered(h) \/ DeleteConfirmed(h) \/ DeleteEffect(h) \/ DeleteDone(h)

\* Every pending call eventually returns.
FairSpec == Spec /\ \A h \in Tasks : WF_vars(Returns(h))

\* Under FairSpec every running handler comes to its end.
HandlersEnd == \A h \in Tasks : ~Finished(h) ~> task[h].pc = "done"

\* C20: every ingest, retrieve, link and delete request that has ended has
\* issued a result message (success or failure) to its requester.
EveryRequestSignalled ==
    \A h \in Tasks :
        (task[h].pc = "done"
         /\ task[h].op \in {"ingest", "retrieve", "stream", "web", "delete"})
        => task[h].sent # {}

\* C21: in a session that starts from any store, after the ingest was
\* answered "Upload Complete" the store has one record for the identifier,
\* with the declared size and the key files/<id>/<name>; the stream link
\* issued is the one for that key; and after the delete was answered "File
\* Deleted Successfully" the mapping in memory and the mapping in the
\* database file are the ones the process started with.
RoundTripRestores ==
    \A h \in Tasks :
        LET id == task[h].file_id
            record == DictGet(files, id)
        IN  /\ LastAnswer(h, "ingest", "UploadComplete")
               => /\ record # None
                  /\ record[1].size = Messages[task[h].msg].file_size
                  /\ record[1].wasabi_key = "files/" \o id \o "/" \o IngestName(task[h])
            /\ LastAnswer(h, "stream", "LinkIssued")
               => /\ record # None
                  /\ record[1].wasabi_key = "files/" \o id \o "/" \o record[1].name
                  /\ task[h].url = "https://" \o record[1].wasabi_key
            /\ LastAnswer(h, "delete", "Deleted")
               => /\ files = bench.before
                  /\ _load_database(disk, "ok") = _load_database(bench.before_disk, "ok")

\* C22: every record's storage key is files/<id>/<name> for its own id and
\* name, and no step changes the storage key of an id that keeps a record.
StorageKeyFixed ==
    [][/\ \A i \in 1 .. Len(files') :
             files'[i].v.wasabi_key = "files/" \o files'[i].k \o "/" \o files'[i].v.name
       /\ \A id \in DictKeys(files) \cap DictKeys(files') :
             DictGet(files', id)[1].wasabi_key = DictGet(files, id)[1].wasabi_key]_vars

\* The characters of a lowercase hexadecimal numeral.
HexChars == {"0", "1", "2", "3", "4", "5", "6", "7", "8", "9",
             "a", "b", "c", "d", "e", "f"}

\* C23: every identifier generate_file_id has returned is 12 lowercase
\* hexadecimal characters, the calls have touched neither the store nor a
\* file, and two calls with the same name and size at different instants
\* have returned different identifiers.
IdentifierShape ==
    /\ \A c \in DOMAIN bench.calls :
          /\ Len(bench.calls[c].file_id) = 12
          /\ \A i \in 1 .. 12 : bench.calls[c].file_id[i] \in HexChars
    /\ files = <<>> /\ disk = None /\ bucket = {} /\ fs = NoFiles
    /\ \A a, b \in DOMAIN bench.calls :
          (/\ bench.calls[a].input = bench.calls[b].input
           /\ bench.calls[a].at # bench.calls[b].at)
          => bench.calls[a].file_id # bench.calls[b].file_id

\* C24: every network call to the backend that a handler has made for an
\* upload, a download (its size lookup included) or a delete ran on a worker
\* thread.
BackendCallsOffLoop ==
    \A h \in Tasks :
        \A call \in task[h].calls \cap {"upload", "head_object", "download", "delete"} :
            thread_of(call) = "worker"

\* C25: every sample of a backend transfer that passes the throttle on a
\* worker thread gets a progress task on the event loop.
PassedSamplesReachLoop ==
    [][(SampleStep /\ progress'.side = "transfer" /\ progress'.edited)
       => progress'.tasks = progress.tasks + 1]_vars

\* C26: a load of the database file made while a rewrite of it is under way
\* returns the mapping the file held before the rewrite or the mapping being
\* written.
ReadsSeeWholeMapping ==
    (bench.read # None /\ bench.during)
    => bench.read[1] \in {bench.old, files}

\* C27: a step of a list, stream-link, web-link, retrieve or delete-prompt
\* request leaves the mapping and the database file as they are; a link or
\* list request also leaves the local files and the bucket alone and makes no
\* transfer call; the store changes only in the step in which an ingest
\* learns that its upload succeeded or a delete that its backend delete did.
ReadOnlyFrame ==
    [][/\ \A h \in Tasks :
             LET t2 == task'[h]
             IN  /\ (t2 # task[h]
                     /\ t2.op \in {"list", "stream", "web", "retrieve", "delete_prompt"})
                    => files' = files /\ disk' = disk
                 /\ (t2 # task[h] /\ t2.op \in {"list", "stream", "web"})
                    => fs' = fs /\ bucket' = bucket /\ t2.calls \subseteq {"presign"}
       /\ (files' # files \/ disk' # disk)
          => \E h \in Tasks : StoresRecord(h) \/ DropsRecord(h)]_vars

\* C27 witness: with a record in the store, a stream link was issued and the
\* listing was sent, and the store still holds the record.
LinkAndListing ==
    \E g, h \in Tasks :
        /\ task[g].op = "stream" /\ task[g].sent = {"LinkIssued"}
        /\ task[h].op = "list" /\ task[h].sent = {"Listing"}
        /\ files # <<>>
        /\ disk = Some(json_dump(files))

\* C28: the listing a caller holds still has the contents it had when
\* list_files returned it.
ListingIsSnapshot ==
    bench.listing # None => Contents(bench.listing[1], files) = bench.listed

\* C29: a transfer that runs its sweep after another transfer of the same
\* process passes the same samples as the first one did.
LaterTransferSameSteps ==
    (/\ progress.nth = 2
     /\ progress.first # None
     /\ progress.mode = "sweep"
     /\ progress.run = 101)
        => progress.at = progress.first[1]

\* C30: while a retrieve is delivering its temporary file, a step of another
\* retrieve of the same id does not remove that file.
ConcurrentRetrievesApart ==
    [][\A g, h \in Tasks :
          (/\ g # h
           /\ task[g].op = "retrieve" /\ task[g].pc = "delivering"
           /\ task'[g] = task[g]
           /\ task[h].op = "retrieve"
           /\ task[h].pc \in {"downloading", "downloaded", "sending", "delivering"}
           /\ task[h].file_id = task[g].file_id
           /\ task'[h] # task[h]
           /\ Exists(fs, RetrieveTemp(task[g])))
          => Exists(fs', RetrieveTemp(task[g]))]_vars

\* C31: the step in which an ingest's upload succeeds and its metadata is
\* stored leaves every record the store already held as it was and makes the
\* store one record larger.
IngestAddsRecord ==
    [][\A h \in Tasks :
          (task[h].op = "ingest" /\ StoresRecord(h))
          => /\ Len(files') = Len(files) + 1
             /\ \A id \in DictKeys(files) :
                   /\ id \in DictKeys(files')
                   /\ DictGet(files', id) = DictGet(files, id)]_vars

====
